---------------------------- MODULE Spec2Model ----------------------------
(***************************************************************************)
(* The structural mutation (diff) engine of pysqlsync:                     *)
(*   formation/mutation.py        Mutator and the _*_diff helpers          *)
(*   dialect/oracle/mutation.py   OracleMutator.mutate_column_stmt         *)
(*   dialect/mysql/object_types.py MySQLColumn.comment / data_spec         *)
(*                                                                         *)
(* The engine is a pure function of two immutable trees.  A state holds    *)
(* one call: the two trees, the dialect in force, and (once the call has   *)
(* run) what the call returned or raised.                                  *)
(*                                                                         *)
(* Text is modelled by its structure: a statement is a record              *)
(* [kw, kind, name, body] and a joined batch is the sequence of its        *)
(* statements.  An ordered mapping (dict) is the sequence of its values,   *)
(* keyed by the values' names, which are distinct.                         *)
(***************************************************************************)
EXTENDS Integers, Sequences, FiniteSets, TLC

VARIABLES level, dialect, source, target, result, pc

vars == <<level, dialect, source, target, result, pc>>

-----------------------------------------------------------------------------
(* Bounds of the explored inputs.                                          *)

MaxValues == 2
MaxMembers == 2
MaxCols == 3
MaxTables == 2
MaxNamespaces == 2
MaxText == 3

(* The longest column comment MySQL accepts.                               *)
MaxComment == 1024

-----------------------------------------------------------------------------
(* Generic helpers.                                                        *)

Range(s) == {s[i] : i \in 1..Len(s)}

(* The injective sequences over S of length at most n.                     *)
InjSeqs(S, n) ==
    UNION {{s \in [1..k -> S] : \A i, j \in 1..k : i # j => s[i] # s[j]}
           : k \in 0..n}

(* An ordered mapping keyed by name: the values, names distinct.           *)
Maps(S, n) ==
    UNION {{s \in [1..k -> S] : \A i, j \in 1..k : i # j => s[i].name # s[j].name}
           : k \in 0..n}

Keys(m) == {m[i].name : i \in 1..Len(m)}

Get(m, id) == m[CHOOSE i \in 1..Len(m) : m[i].name = id]

-----------------------------------------------------------------------------
(* What a call returns or raises.                                          *)

None == "<None>"

NoError == [type |-> "", msg |-> "", table |-> "", cause |-> ""]

FormationError(msg) ==
    [type |-> "FormationError", msg |-> msg, table |-> "", cause |-> ""]

ColumnFormationError(msg) ==
    [type |-> "ColumnFormationError", msg |-> msg, table |-> "", cause |-> ""]

(* raise TableFormationError(msg, table) from e                            *)
TableFormationError(msg, table, e) ==
    [type |-> "TableFormationError", msg |-> msg, table |-> table,
     cause |-> e.type]

ReturnNone == [status |-> "none", out |-> <<>>, error |-> NoError]

Return(o) == [status |-> "ok", out |-> o, error |-> NoError]

Raise(e) == [status |-> "error", out |-> <<>>, error |-> e]

Stmt(kw, kind, name, body) ==
    [kw |-> kw, kind |-> kind, name |-> name, body |-> body]

(* The first exception raised by a sequence of evaluations, in order.      *)
Raised(rs) == \E i \in 1..Len(rs) : rs[i].status = "error"

FirstRaised(rs) ==
    rs[CHOOSE i \in 1..Len(rs) :
          /\ rs[i].status = "error"
          /\ \A j \in 1..(i - 1) : rs[j].status # "error"]

(* `if statement: statements.append(statement)` over the results.          *)
Statements(rs) ==
    LET ok == SelectSeq(rs, LAMBDA r : r.status = "ok")
    IN  [i \in 1..Len(ok) |-> ok[i].out]

-----------------------------------------------------------------------------
(* Mutator.check_identity                                                  *)

check_identity(s, t) == s.name = t.name

IdentityMismatch == FormationError("object mismatch")

-----------------------------------------------------------------------------
(* Mutator.mutate_enum_stmt                                                *)

removed_values(s, t) ==
    SelectSeq(s.values, LAMBDA v : v \notin Range(t.values))

added_values(s, t) ==
    SelectSeq(t.values, LAMBDA v : v \notin Range(s.values))

(* A variant that looks at the added values first.                         *)
mutate_enum_stmt_added_first(s, t) ==
    IF ~check_identity(s, t) THEN Raise(IdentityMismatch)
    ELSE IF added_values(s, t) # <<>>
         THEN Return(Stmt("ALTER TYPE", "enum", s.name,
                  [i \in 1..Len(added_values(s, t)) |->
                      [text |-> "ADD VALUE", arg |-> added_values(s, t)[i]]]))
    ELSE IF removed_values(s, t) # <<>>
         THEN Raise(FormationError("cannot drop values in an enumeration"))
    ELSE ReturnNone

mutate_enum_stmt(s, t) ==
    IF ~check_identity(s, t) THEN Raise(IdentityMismatch)
    ELSE IF removed_values(s, t) # <<>>
         THEN Raise(FormationError("cannot drop values in an enumeration"))
    ELSE IF added_values(s, t) # <<>>
         THEN Return(Stmt("ALTER TYPE", "enum", s.name,
                  [i \in 1..Len(added_values(s, t)) |->
                      [text |-> "ADD VALUE", arg |-> added_values(s, t)[i]]]))
    ELSE ReturnNone

-----------------------------------------------------------------------------
(* Mutator.mutate_struct_stmt                                              *)

(* The second loop tests target members against target.members.            *)
struct_statements(s, t) ==
    LET dropped == SelectSeq(s.members, LAMBDA m : m \notin Range(t.members))
        added   == SelectSeq(t.members, LAMBDA m : m \notin Range(t.members))
    IN  [i \in 1..Len(dropped) |->
            [text |-> "DROP ATTRIBUTE", arg |-> dropped[i].name]]
        \o [i \in 1..Len(added) |->
            [text |-> "ADD ATTRIBUTE", arg |-> added[i].name]]

mutate_struct_stmt(s, t) ==
    IF ~check_identity(s, t) THEN Raise(IdentityMismatch)
    ELSE IF struct_statements(s, t) # <<>>
         THEN Return(Stmt("ALTER TYPE", "struct", s.name, struct_statements(s, t)))
    ELSE ReturnNone

-----------------------------------------------------------------------------
(* Columns.  A description is kept as the lengths of its lines: that is    *)
(* all MySQLColumn.comment reads of it.                                    *)

NoDescription == [present |-> FALSE, lines |-> <<>>]

Description(lines) == [present |-> TRUE, lines |-> lines]

Column(name, data_type, nullable, default, identity, description) ==
    [name |-> name, data_type |-> data_type, nullable |-> nullable,
     default |-> default, identity |-> identity, description |-> description]

(* MySQLColumn.comment: the first line of the description, quoted.         *)
MySQLColumn_comment(c) ==
    IF c.description.present
    THEN IF c.description.lines[1] > MaxComment
         THEN Raise(FormationError("comment too long"))
         ELSE Return(c.description.lines[1])
    ELSE ReturnNone

(* MySQLColumn.data_spec reads self.comment when there is a description.   *)
MySQLColumn_data_spec(c) ==
    IF c.description.present /\ MySQLColumn_comment(c).status = "error"
    THEN MySQLColumn_comment(c)
    ELSE Return(c.data_type)

(* The column that the fault-injecting dialect cannot create, change or    *)
(* drop.                                                                   *)
FaultColumn == "email"

Faulty(d, c) == d = "faulty" /\ c.name = FaultColumn

(* str(column): name and data_spec.                                        *)
Column_spec(d, c) ==
    IF Faulty(d, c) THEN Raise(ColumnFormationError("injected"))
    ELSE IF d = "mysql" THEN MySQLColumn_data_spec(c)
    ELSE Return(c.data_type)

Column_create_stmt(d, c) ==
    IF Column_spec(d, c).status = "error" THEN Column_spec(d, c)
    ELSE Return(Stmt("ADD COLUMN", "column", c.name, <<>>))

Column_drop_stmt(d, c) ==
    IF Faulty(d, c) THEN Raise(ColumnFormationError("injected"))
    ELSE Return(Stmt("DROP COLUMN", "column", c.name, <<>>))

Change(text, arg) == [text |-> text, arg |-> arg]

(* A variant whose default branch is a plain inequality test.              *)
column_statements_set_default(s, t) ==
    (IF s.data_type # t.data_type
     THEN <<Change("SET DATA TYPE", t.data_type)>> ELSE <<>>)
    \o (IF s.nullable /\ ~t.nullable THEN <<Change("SET NOT NULL", "")>>
        ELSE IF ~s.nullable /\ t.nullable THEN <<Change("DROP NOT NULL", "")>>
        ELSE <<>>)
    \o (IF s.default # t.default
        THEN <<Change("SET DEFAULT", t.default)>>
        ELSE <<>>)
    \o (IF s.identity /\ ~t.identity THEN <<Change("DROP IDENTITY", "")>>
        ELSE IF ~s.identity /\ t.identity
        THEN <<Change("ADD GENERATED BY DEFAULT AS IDENTITY", "")>>
        ELSE <<>>)

(* Mutator.mutate_column_stmt                                              *)
column_statements(s, t) ==
    (IF s.data_type # t.data_type
     THEN <<Change("SET DATA TYPE", t.data_type)>> ELSE <<>>)
    \o (IF s.nullable /\ ~t.nullable THEN <<Change("SET NOT NULL", "")>>
        ELSE IF ~s.nullable /\ t.nullable THEN <<Change("DROP NOT NULL", "")>>
        ELSE <<>>)
    \o (IF s.default # None /\ t.default = None
        THEN <<Change("DROP DEFAULT", "")>>
        ELSE IF s.default # t.default
        THEN <<Change("SET DEFAULT", t.default)>>
        ELSE <<>>)
    \o (IF s.identity /\ ~t.identity THEN <<Change("DROP IDENTITY", "")>>
        ELSE IF ~s.identity /\ t.identity
        THEN <<Change("ADD GENERATED BY DEFAULT AS IDENTITY", "")>>
        ELSE <<>>)

Mutator_mutate_column_stmt(s, t) ==
    IF s = t THEN ReturnNone
    ELSE IF column_statements(s, t) # <<>>
         THEN Return(Stmt("ALTER COLUMN", "column", s.name, column_statements(s, t)))
    ELSE ReturnNone

(* OracleColumn.default_expr: the default as Oracle writes it.             *)
default_expr(c) == c.default

(* A variant that writes a default only where the target has one.          *)
oracle_changes_without_default_null(s, t) ==
    (IF s.data_type # t.data_type
     THEN <<Change("<data type>", t.data_type)>> ELSE <<>>)
    \o (IF s.default # t.default /\ t.default # None
        THEN <<Change("DEFAULT", default_expr(t))>>
        ELSE <<>>)
    \o (IF s.nullable # t.nullable
        THEN IF ~t.nullable THEN <<Change("NOT NULL", "")>>
             ELSE <<Change("NULL", "")>>
        ELSE <<>>)
    \o (IF s.identity # t.identity
        THEN IF t.identity
             THEN <<Change("GENERATED BY DEFAULT AS IDENTITY", "")>>
             ELSE <<Change("DROP IDENTITY", "")>>
        ELSE <<>>)

(* OracleMutator.mutate_column_stmt                                        *)
oracle_changes(s, t) ==
    (IF s.data_type # t.data_type
     THEN <<Change("<data type>", t.data_type)>> ELSE <<>>)
    \o (IF s.default # t.default
        THEN IF t.default # None
             THEN <<Change("DEFAULT", default_expr(t))>>
             ELSE <<Change("DEFAULT NULL", "")>>
        ELSE <<>>)
    \o (IF s.nullable # t.nullable
        THEN IF ~t.nullable THEN <<Change("NOT NULL", "")>>
             ELSE <<Change("NULL", "")>>
        ELSE <<>>)
    \o (IF s.identity # t.identity
        THEN IF t.identity
             THEN <<Change("GENERATED BY DEFAULT AS IDENTITY", "")>>
             ELSE <<Change("DROP IDENTITY", "")>>
        ELSE <<>>)

OracleMutator_mutate_column_stmt(s, t) ==
    IF oracle_changes(s, t) # <<>>
    THEN Return(Stmt("MODIFY", "column", s.name, oracle_changes(s, t)))
    ELSE ReturnNone

(* self.mutate_column_stmt: the mutator of the dialect in force.  The      *)
(* fault-injecting dialect fails where its column has to change.           *)
mutate_column_stmt(d, s, t) ==
    IF Faulty(d, s) /\ s # t THEN Raise(ColumnFormationError("injected"))
    ELSE IF d = "oracle" THEN OracleMutator_mutate_column_stmt(s, t)
    ELSE Mutator_mutate_column_stmt(s, t)

-----------------------------------------------------------------------------
(* Tables.                                                                 *)

Constraint(name, alter) == [name |-> name, is_alter_table |-> alter]

Table(name, columns, constraints) ==
    [name |-> name, columns |-> columns, constraints |-> constraints]

(* except ColumnFormationError as e: raise TableFormationError(...) from e *)
Wrap(rs, msg, table) ==
    [i \in 1..Len(rs) |->
        IF rs[i].status = "error" /\ rs[i].error.type = "ColumnFormationError"
        THEN Raise(TableFormationError(msg, table, rs[i].error))
        ELSE rs[i]]

(* A variant of the first loop that pairs the columns by position.         *)
create_or_update_by_position(d, s, t) ==
    [i \in 1..Len(t.columns) |->
        IF i > Len(s.columns)
        THEN Column_create_stmt(d, t.columns[i])
        ELSE mutate_column_stmt(d, s.columns[i], t.columns[i])]

(* The first loop of mutate_table_stmt, over target.columns.values().      *)
create_or_update(d, s, t) ==
    [i \in 1..Len(t.columns) |->
        IF t.columns[i].name \notin Keys(s.columns)
        THEN Column_create_stmt(d, t.columns[i])
        ELSE mutate_column_stmt(d, Get(s.columns, t.columns[i].name), t.columns[i])]

(* A variant of the second loop that tests membership in the source.       *)
drop_columns_in_source(d, s, t) ==
    [i \in 1..Len(s.columns) |->
        IF s.columns[i].name \in Keys(t.columns)
        THEN Column_drop_stmt(d, s.columns[i])
        ELSE ReturnNone]

(* The second loop, over source.columns.values().                          *)
drop_columns(d, s, t) ==
    [i \in 1..Len(s.columns) |->
        IF s.columns[i].name \notin Keys(t.columns)
        THEN Column_drop_stmt(d, s.columns[i])
        ELSE ReturnNone]

(* A variant whose last branch adds the target's constraints again.        *)
constraint_statements_readd(s, t) ==
    IF s.constraints # <<>> /\ t.constraints = <<>>
    THEN LET cs == SelectSeq(s.constraints, LAMBDA c : c.is_alter_table)
         IN  [i \in 1..Len(cs) |->
                Return(Stmt("DROP CONSTRAINT", "constraint", cs[i].name, <<>>))]
    ELSE LET cs == SelectSeq(t.constraints, LAMBDA c : c.is_alter_table)
         IN  [i \in 1..Len(cs) |->
                Return(Stmt("ADD CONSTRAINT", "constraint", cs[i].name, <<>>))]

(* A variant that drops and adds every constraint, inline or not.          *)
constraint_statements_unfiltered(s, t) ==
    IF s.constraints # <<>> /\ t.constraints = <<>>
    THEN [i \in 1..Len(s.constraints) |->
            Return(Stmt("DROP CONSTRAINT", "constraint", s.constraints[i].name, <<>>))]
    ELSE IF s.constraints = <<>> /\ t.constraints # <<>>
    THEN [i \in 1..Len(t.constraints) |->
            Return(Stmt("ADD CONSTRAINT", "constraint", t.constraints[i].name, <<>>))]
    ELSE <<>>

(* The constraint branches; the branch for two non-empty sets is `...`.    *)
constraint_statements(s, t) ==
    IF s.constraints # <<>> /\ t.constraints = <<>>
    THEN LET cs == SelectSeq(s.constraints, LAMBDA c : c.is_alter_table)
         IN  [i \in 1..Len(cs) |->
                Return(Stmt("DROP CONSTRAINT", "constraint", cs[i].name, <<>>))]
    ELSE IF s.constraints = <<>> /\ t.constraints # <<>>
    THEN LET cs == SelectSeq(t.constraints, LAMBDA c : c.is_alter_table)
         IN  [i \in 1..Len(cs) |->
                Return(Stmt("ADD CONSTRAINT", "constraint", cs[i].name, <<>>))]
    ELSE <<>>

(* Table.alter_table_stmt                                                  *)
alter_table_stmt(s, statements) == Stmt("ALTER TABLE", "table", s.name, statements)

(* A call's outcome from the outcomes of its steps, in the order taken.    *)
Outcome(rs) ==
    IF Raised(rs) THEN FirstRaised(rs)
    ELSE IF Statements(rs) # <<>> THEN Return(Statements(rs))
    ELSE ReturnNone

(* return f(statements) in place of the statements.                        *)
Joined(r, st) == IF r.status = "ok" THEN Return(st) ELSE r

(* Mutator.mutate_table_stmt                                               *)
mutate_table_stmt(d, s, t) ==
    IF ~check_identity(s, t) THEN Raise(IdentityMismatch)
    ELSE LET r == Outcome(
                    Wrap(create_or_update(d, s, t),
                         "failed to create or update columns in table", t.name)
                    \o Wrap(drop_columns(d, s, t),
                            "failed to drop columns in table", t.name)
                    \o constraint_statements(s, t))
         IN  Joined(r, alter_table_stmt(s, r.out))

-----------------------------------------------------------------------------
(* Rendering of the objects of a namespace.                                *)

EnumType(name, values) == [name |-> name, values |-> values]

StructType(name, members) == [name |-> name, members |-> members]

StructMember(name, data_type) == [name |-> name, data_type |-> data_type]

Namespace(name, enums, structs, tables) ==
    [name |-> name, enums |-> enums, structs |-> structs, tables |-> tables]

Catalog(namespaces) == [namespaces |-> namespaces]

EnumType_create_stmt(e) == Return(Stmt("CREATE", "enum", e.name, e.values))

EnumType_drop_stmt(e) == Return(Stmt("DROP", "enum", e.name, <<>>))

StructType_create_stmt(s) ==
    Return(Stmt("CREATE", "struct", s.name,
                [i \in 1..Len(s.members) |-> s.members[i].name]))

StructType_drop_stmt(s) == Return(Stmt("DROP", "struct", s.name, <<>>))

(* Table.create_stmt: the column definitions, in insertion order.          *)
Table_create_stmt(d, t) ==
    LET r == Outcome([i \in 1..Len(t.columns) |->
                        IF Column_spec(d, t.columns[i]).status = "error"
                        THEN Column_spec(d, t.columns[i])
                        ELSE Return(t.columns[i].name)])
    IN  IF r.status = "error" THEN r
        ELSE Return(Stmt("CREATE", "table", t.name, r.out))

Table_drop_stmt(t) == Return(Stmt("DROP", "table", t.name, <<>>))

(* The constraints that need ALTER TABLE, by name.                         *)
deferred(t) ==
    LET cs == SelectSeq(t.constraints, LAMBDA c : c.is_alter_table)
    IN  [i \in 1..Len(cs) |-> cs[i].name]

Table_add_constraints_stmt(t) ==
    IF deferred(t) # <<>>
    THEN Return(Stmt("ADD CONSTRAINTS", "table", t.name, deferred(t)))
    ELSE ReturnNone

Table_drop_constraints_stmt(t) ==
    IF deferred(t) # <<>>
    THEN Return(Stmt("DROP CONSTRAINTS", "table", t.name, deferred(t)))
    ELSE ReturnNone

Namespace_create_stmt(n) == Return(Stmt("CREATE", "namespace", n.name, <<>>))

Namespace_drop_stmt(n) == Return(Stmt("DROP", "namespace", n.name, <<>>))

Namespace_add_constraints_stmt(n) ==
    LET r == Outcome([i \in 1..Len(n.tables) |->
                        Table_add_constraints_stmt(n.tables[i])])
    IN  Joined(r, Stmt("ADD CONSTRAINTS", "namespace", n.name, r.out))

Namespace_drop_constraints_stmt(n) ==
    LET r == Outcome([i \in 1..Len(n.tables) |->
                        Table_drop_constraints_stmt(n.tables[i])])
    IN  Joined(r, Stmt("DROP CONSTRAINTS", "namespace", n.name, r.out))

-----------------------------------------------------------------------------
(* The methods of an object, by the kind of the object.                    *)
create_stmt(kind, d, x) ==
    CASE kind = "enum" -> EnumType_create_stmt(x)
      [] kind = "struct" -> StructType_create_stmt(x)
      [] kind = "table" -> Table_create_stmt(d, x)
      [] kind = "namespace" -> Namespace_create_stmt(x)

drop_stmt(kind, x) ==
    CASE kind = "enum" -> EnumType_drop_stmt(x)
      [] kind = "struct" -> StructType_drop_stmt(x)
      [] kind = "table" -> Table_drop_stmt(x)
      [] kind = "namespace" -> Namespace_drop_stmt(x)

add_constraints_stmt(kind, x) ==
    CASE kind = "table" -> Table_add_constraints_stmt(x)
      [] kind = "namespace" -> Namespace_add_constraints_stmt(x)

drop_constraints_stmt(kind, x) ==
    CASE kind = "table" -> Table_drop_constraints_stmt(x)
      [] kind = "namespace" -> Namespace_drop_constraints_stmt(x)

_create_diff(kind, d, s, t) ==
    LET new == SelectSeq(t, LAMBDA x : x.name \notin Keys(s))
    IN  [i \in 1..Len(new) |-> create_stmt(kind, d, new[i])]

_drop_diff(kind, s, t) ==
    LET old == SelectSeq(s, LAMBDA x : x.name \notin Keys(t))
    IN  [i \in 1..Len(old) |-> drop_stmt(kind, old[i])]

RECURSIVE mutate_namespace_stmt(_, _, _)

(* mutate_fn(source[id], target[id]), mutate_fn a method of the mutator.   *)
(* A namespace's batch is one entry of the catalog's statement list.       *)
mutate_fn(kind, d, x, y) ==
    CASE kind = "enum" -> mutate_enum_stmt(x, y)
      [] kind = "struct" -> mutate_struct_stmt(x, y)
      [] kind = "table" -> mutate_table_stmt(d, x, y)
      [] kind = "namespace" ->
            Joined(mutate_namespace_stmt(d, x, y),
                   Stmt("MUTATE", "namespace", x.name,
                        mutate_namespace_stmt(d, x, y).out))

_mutate_diff(kind, d, s, t) ==
    LET both == SelectSeq(s, LAMBDA x : x.name \in Keys(t))
    IN  [i \in 1..Len(both) |-> mutate_fn(kind, d, both[i], Get(t, both[i].name))]

(* The loop over target keys absent from source: add_constraints_stmt().   *)
add_constraints(kind, s, t) ==
    LET new == SelectSeq(t, LAMBDA x : x.name \notin Keys(s))
    IN  [i \in 1..Len(new) |-> add_constraints_stmt(kind, new[i])]

(* The loop over source keys absent from target: drop_constraints_stmt().  *)
drop_constraints(kind, s, t) ==
    LET old == SelectSeq(s, LAMBDA x : x.name \notin Keys(t))
    IN  [i \in 1..Len(old) |-> drop_constraints_stmt(kind, old[i])]

(* A variant that mutates before it adds the new tables' constraints.      *)
namespace_steps_mutate_early(d, s, t) ==
    _create_diff("enum", d, s.enums, t.enums)
    \o _create_diff("struct", d, s.structs, t.structs)
    \o _create_diff("table", d, s.tables, t.tables)
    \o _mutate_diff("enum", d, s.enums, t.enums)
    \o _mutate_diff("struct", d, s.structs, t.structs)
    \o _mutate_diff("table", d, s.tables, t.tables)
    \o add_constraints("table", s.tables, t.tables)
    \o _drop_diff("table", s.tables, t.tables)
    \o _drop_diff("struct", s.structs, t.structs)
    \o _drop_diff("enum", s.enums, t.enums)

(* A variant that drops in the order it creates.                           *)
namespace_steps_drop_in_create_order(d, s, t) ==
    _create_diff("enum", d, s.enums, t.enums)
    \o _create_diff("struct", d, s.structs, t.structs)
    \o _create_diff("table", d, s.tables, t.tables)
    \o add_constraints("table", s.tables, t.tables)
    \o _mutate_diff("enum", d, s.enums, t.enums)
    \o _mutate_diff("struct", d, s.structs, t.structs)
    \o _mutate_diff("table", d, s.tables, t.tables)
    \o _drop_diff("enum", s.enums, t.enums)
    \o _drop_diff("struct", s.structs, t.structs)
    \o _drop_diff("table", s.tables, t.tables)

(* Mutator.mutate_namespace_stmt                                           *)
namespace_steps(d, s, t) ==
    _create_diff("enum", d, s.enums, t.enums)
    \o _create_diff("struct", d, s.structs, t.structs)
    \o _create_diff("table", d, s.tables, t.tables)
    \o add_constraints("table", s.tables, t.tables)
    \o _mutate_diff("enum", d, s.enums, t.enums)
    \o _mutate_diff("struct", d, s.structs, t.structs)
    \o _mutate_diff("table", d, s.tables, t.tables)
    \o _drop_diff("table", s.tables, t.tables)
    \o _drop_diff("struct", s.structs, t.structs)
    \o _drop_diff("enum", s.enums, t.enums)

mutate_namespace_stmt(d, s, t) ==
    IF ~check_identity(s, t) THEN Raise(IdentityMismatch)
    ELSE Outcome(namespace_steps(d, s, t))

(* Mutator.mutate_catalog_stmt                                             *)
catalog_steps(d, s, t) ==
    _create_diff("namespace", d, s.namespaces, t.namespaces)
    \o add_constraints("namespace", s.namespaces, t.namespaces)
    \o _mutate_diff("namespace", d, s.namespaces, t.namespaces)
    \o drop_constraints("namespace", s.namespaces, t.namespaces)
    \o _drop_diff("namespace", s.namespaces, t.namespaces)

mutate_catalog_stmt(d, s, t) ==
    Outcome(catalog_steps(d, s, t))

-----------------------------------------------------------------------------
(* The inputs explored at each level.                                      *)

Values == {"a", "b", "c"}

Enums(names) == [name : names, values : InjSeqs(Values, MaxValues)]

Members == [name : {"m1", "m2", "m3"}, data_type : {"int", "text"}]

Structs(names) == [name : names, members : Maps(Members, MaxMembers)]

Columns(names) ==
    [name : names, data_type : {"int", "text"}, nullable : BOOLEAN,
     default : {None, "0", "1"}, identity : BOOLEAN,
     description : {NoDescription, Description(<<5>>)}]

(* The columns of the explored tables: two of each name.  One description  *)
(* is of the longest accepted first line, one is a character longer.       *)
TableColumns ==
    {Column("id", "int", FALSE, None, TRUE, NoDescription),
     Column("id", "int", TRUE, None, FALSE, Description(<<MaxComment, 40>>)),
     Column("name", "text", TRUE, None, FALSE, NoDescription),
     Column("name", "text", FALSE, None, FALSE, NoDescription),
     Column("email", "text", TRUE, None, FALSE, NoDescription),
     Column("email", "text", TRUE, None, FALSE, Description(<<MaxComment + 1>>))}

ConstraintSets ==
    {<<>>,
     <<Constraint("fk_owner", TRUE)>>,
     <<Constraint("fk_group", TRUE), Constraint("ck_age", FALSE)>>}

Tables(names) ==
    [name : names, columns : Maps(TableColumns, MaxCols),
     constraints : ConstraintSets]

OtherTables ==
    {Table("orders", <<>>, <<>>),
     Table("orders", <<Column("id", "int", FALSE, None, TRUE, NoDescription)>>,
           <<Constraint("fk_owner", TRUE)>>)}

NamespaceEnums ==
    {<<>>, <<EnumType("e1", <<"a">>)>>, <<EnumType("e1", <<"a", "b">>)>>}

NamespaceStructs ==
    {<<>>,
     <<StructType("s1", <<StructMember("m1", "int")>>)>>,
     <<StructType("s1", <<StructMember("m1", "int"), StructMember("m2", "text")>>)>>}

NamespaceTables ==
    Maps({Table(n, <<Column("id", "int", FALSE, None, TRUE, NoDescription)>>, <<>>)
            : n \in {"A", "B"}}
         \cup
         {Table(n, <<Column("id", "int", FALSE, None, TRUE, NoDescription),
                    Column("ref", "int", TRUE, None, FALSE, NoDescription)>>,
                <<Constraint("fk_ref", TRUE), Constraint("ck_id", FALSE)>>)
            : n \in {"A", "B"}},
         MaxTables)

Namespaces(names) ==
    [name : names, enums : NamespaceEnums, structs : NamespaceStructs,
     tables : NamespaceTables]

OtherNamespaces ==
    [name : {"other"}, enums : NamespaceEnums, structs : {<<>>}, tables : {<<>>}]

CatalogNamespaces ==
    UNION {{Namespace(n, <<>>, <<>>, <<>>),
            Namespace(n, <<EnumType("e1", <<"a">>)>>, <<>>,
                      <<Table("A", <<Column("id", "int", FALSE, None, TRUE,
                                            NoDescription)>>, <<>>)>>),
            Namespace(n, <<EnumType("e1", <<"a", "b">>)>>, <<>>,
                      <<Table("A", <<Column("id", "int", FALSE, None, TRUE,
                                            NoDescription)>>,
                              <<Constraint("fk_ref", TRUE)>>)>>),
            Namespace(n, <<>>, <<>>,
                      <<Table("B", <<Column("id", "int", FALSE, None, TRUE,
                                            NoDescription)>>,
                              <<Constraint("fk_ref", TRUE)>>)>>)}
           : n \in {"n1", "n2"}}

Catalogs == [namespaces : Maps(CatalogNamespaces, MaxNamespaces)]

-----------------------------------------------------------------------------
(* PostgreSQL string literals.  A text is the sequence of its characters;  *)
(* a character is a one-character string, a control character its name.   *)

Backslash == "\\"
Apostrophe == "'"
Backspace == "<BS>"
FormFeed == "<FF>"
Newline == "<LF>"
CarriageReturn == "<CR>"
Tab == "<TAB>"

(* [\b\f\n\r\t]                                                           *)
ControlChars == {Backspace, FormFeed, Newline, CarriageReturn, Tab}

(* _sql_quoted_str_table: what str.translate puts for a character.         *)
_sql_quoted_str_table(c) ==
    CASE c = Backslash -> <<Backslash, Backslash>>
      [] c = Apostrophe -> <<Backslash, Apostrophe>>
      [] c = Backspace -> <<Backslash, "b">>
      [] c = FormFeed -> <<Backslash, "f">>
      [] c = Newline -> <<Backslash, "n">>
      [] c = CarriageReturn -> <<Backslash, "r">>
      [] c = Tab -> <<Backslash, "t">>
      [] OTHER -> <<c>>

(* A variant of translate that leaves the backslash as it is.              *)
RECURSIVE translate_keeps_backslash(_)
translate_keeps_backslash(text) ==
    IF text = <<>> THEN <<>>
    ELSE (IF Head(text) = Backslash THEN <<Backslash>>
          ELSE _sql_quoted_str_table(Head(text)))
         \o translate_keeps_backslash(Tail(text))

(* text.translate(_sql_quoted_str_table)                                   *)
RECURSIVE translate(_)
translate(text) ==
    IF text = <<>> THEN <<>>
    ELSE _sql_quoted_str_table(Head(text)) \o translate(Tail(text))

(* text.replace("'", "''")                                                 *)
RECURSIVE replace_apostrophes(_)
replace_apostrophes(text) ==
    IF text = <<>> THEN <<>>
    ELSE (IF Head(text) = Apostrophe THEN <<Apostrophe, Apostrophe>>
          ELSE <<Head(text)>>)
         \o replace_apostrophes(Tail(text))

(* sql_quoted_string                                                       *)
sql_quoted_string(text) ==
    IF \E i \in 1..Len(text) : text[i] \in ControlChars
    THEN <<"E", Apostrophe>> \o translate(text) \o <<Apostrophe>>
    ELSE <<Apostrophe>> \o replace_apostrophes(text) \o <<Apostrophe>>

(* The characters of the explored texts.                                   *)
Chars == {Backslash, Apostrophe} \cup ControlChars \cup {"a", "n"}

Texts == UNION {[1..n -> Chars] : n \in 0..MaxText}

-----------------------------------------------------------------------------
(* The state machine: one call per behaviour.                              *)

Pending == [status |-> "pending", out |-> <<>>, error |-> NoError]

InitEnum ==
    /\ level = "enum" /\ dialect = "base"
    /\ source \in Enums({"e1"}) /\ target \in Enums({"e1", "e2"})

InitStruct ==
    /\ level = "struct" /\ dialect = "base"
    /\ source \in Structs({"s1"}) /\ target \in Structs({"s1", "s2"})

InitColumn ==
    /\ level = "column" /\ dialect \in {"base", "oracle"}
    /\ source \in Columns({"id"}) /\ target \in Columns({"id", "name"})

InitTable ==
    /\ level = "table" /\ dialect \in {"base", "mysql", "faulty"}
    /\ source \in Tables({"users"})
    /\ target \in Tables({"users"}) \cup OtherTables

InitNamespace ==
    /\ level = "namespace" /\ dialect = "base"
    /\ source \in Namespaces({"public"})
    /\ target \in Namespaces({"public"}) \cup OtherNamespaces

InitCatalog ==
    /\ level = "catalog" /\ dialect = "base"
    /\ source \in Catalogs /\ target \in Catalogs

Init ==
    /\ pc = "ready"
    /\ result = Pending
    /\ \/ InitEnum
       \/ InitStruct
       \/ InitColumn
       \/ InitTable
       \/ InitNamespace
       \/ InitCatalog

Done(r) ==
    /\ pc = "ready"
    /\ result' = r
    /\ pc' = "done"
    /\ UNCHANGED <<level, dialect, source, target>>

MutateEnum == level = "enum" /\ Done(mutate_enum_stmt(source, target))

MutateStruct == level = "struct" /\ Done(mutate_struct_stmt(source, target))

MutateColumn ==
    /\ level = "column" /\ dialect # "oracle"
    /\ Done(Mutator_mutate_column_stmt(source, target))

OracleMutateColumn ==
    /\ level = "column" /\ dialect = "oracle"
    /\ Done(OracleMutator_mutate_column_stmt(source, target))

MutateTable == level = "table" /\ Done(mutate_table_stmt(dialect, source, target))

MutateNamespace ==
    level = "namespace" /\ Done(mutate_namespace_stmt(dialect, source, target))

MutateCatalog ==
    level = "catalog" /\ Done(mutate_catalog_stmt(dialect, source, target))

Next ==
    \/ MutateEnum
    \/ MutateStruct
    \/ MutateColumn
    \/ OracleMutateColumn
    \/ MutateTable
    \/ MutateNamespace
    \/ MutateCatalog

Spec == Init /\ [][Next]_vars

(* The same machine for a call of sql_quoted_string on a text.             *)
InitString ==
    /\ pc = "ready"
    /\ result = Pending
    /\ level = "string" /\ dialect = "postgresql"
    /\ source \in Texts /\ target = <<>>

QuoteString == level = "string" /\ Done(Return(sql_quoted_string(source)))

NextString == QuoteString

SpecString == InitString /\ [][NextString]_vars

-----------------------------------------------------------------------------
(* Vocabulary of the properties.                                           *)

Called == pc = "done"

(* The step of a level that a statement of its batch belongs to.           *)
Phase(st) ==
    CASE st.kw = "CREATE" -> 1
      [] st.kw = "ADD CONSTRAINTS" -> 2
      [] st.kw \in {"ALTER TYPE", "ALTER TABLE", "MUTATE"} -> 3
      [] st.kw = "DROP CONSTRAINTS" -> 4
      [] st.kw = "DROP" -> 5

(* The children that deferred constraints belong to: a namespace's tables, *)
(* a catalog's namespaces.                                                 *)
Siblings(x) == IF level = "catalog" THEN x.namespaces ELSE x.tables

-----------------------------------------------------------------------------
(* C1: diffing an enum, struct, column, table, namespace or catalog        *)
(* against itself returns None.                                            *)
IdentityLaw == Called /\ source = target => result.status = "none"

IdentityLawWitness ==
    /\ Called /\ level = "namespace" /\ source = target
    /\ source.enums # <<>> /\ source.structs # <<>>
    /\ \E i \in 1..Len(source.tables) :
          /\ Len(source.tables[i].columns) >= 2
          /\ source.tables[i].constraints # <<>>
    /\ result.status = "none"

(* C2: in the batch of a namespace or catalog diff the statements come in  *)
(* the order creates, deferred add-constraints (of newly created siblings  *)
(* only), mutations, deferred drop-constraints, drops; so every CREATE     *)
(* precedes every ADD CONSTRAINTS.                                         *)
StatementOrdering ==
    Called /\ level \in {"namespace", "catalog"} /\ result.status = "ok" =>
        /\ \A i, j \in 1..Len(result.out) :
              i < j => Phase(result.out[i]) <= Phase(result.out[j])
        /\ \A i \in 1..Len(result.out) :
              Phase(result.out[i]) = 2 =>
                  result.out[i].name \in Keys(Siblings(target)) \ Keys(Siblings(source))

StatementOrderingWitness ==
    /\ Called /\ level = "namespace" /\ result.status = "ok"
    /\ source.tables = <<>>
    /\ Cardinality({i \in 1..Len(result.out) :
            result.out[i].kw = "CREATE" /\ result.out[i].kind = "table"}) = 2
    /\ \E i \in 1..Len(result.out) : Phase(result.out[i]) = 2
    /\ \E i \in 1..Len(result.out) : Phase(result.out[i]) = 3
    /\ \E i \in 1..Len(result.out) : Phase(result.out[i]) = 5

Removes(s, t) == Range(s.values) \ Range(t.values) # {}

RemovesInNamespace(s, t) ==
    \E i \in 1..Len(s.enums), j \in 1..Len(t.enums) :
        s.enums[i].name = t.enums[j].name /\ Removes(s.enums[i], t.enums[j])

IndexOf(seq, v) == CHOOSE i \in 1..Len(seq) : seq[i] = v

(* C3: an enum diff raises FormationError, and returns nothing, whenever   *)
(* the source has a value the target lacks, also when the target adds      *)
(* values, and the error leaves the namespace and catalog diffs; otherwise *)
(* it returns one ALTER TYPE with one ADD VALUE per value only the target  *)
(* has, in target order, or None when there is none.                       *)
EnumAdditiveOnly ==
    /\ Called /\ level = "enum" /\ Removes(source, target) =>
          result.status = "error" /\ result.error.type = "FormationError"
    /\ Called /\ level = "enum" /\ ~Removes(source, target)
          /\ source.name = target.name =>
          LET new == Range(target.values) \ Range(source.values)
          IN  IF new = {} THEN result.status = "none"
              ELSE /\ result.status = "ok"
                   /\ result.out.kw = "ALTER TYPE"
                   /\ result.out.name = source.name
                   /\ Len(result.out.body) = Cardinality(new)
                   /\ {c.arg : c \in Range(result.out.body)} = new
                   /\ \A i \in 1..Len(result.out.body) :
                         result.out.body[i].text = "ADD VALUE"
                   /\ \A i, j \in 1..Len(result.out.body) :
                         i < j => IndexOf(target.values, result.out.body[i].arg)
                                  < IndexOf(target.values, result.out.body[j].arg)
    /\ Called /\ level = "namespace" /\ RemovesInNamespace(source, target) =>
          result.status = "error" /\ result.error.type = "FormationError"
    /\ Called /\ level = "catalog"
          /\ (\E i \in 1..Len(source.namespaces), j \in 1..Len(target.namespaces) :
                 /\ source.namespaces[i].name = target.namespaces[j].name
                 /\ RemovesInNamespace(source.namespaces[i], target.namespaces[j])) =>
          result.status = "error" /\ result.error.type = "FormationError"

EnumAdditiveOnlyWitness ==
    /\ Called /\ level = "enum" /\ source.name = target.name
    /\ Removes(source, target)
    /\ Range(target.values) \ Range(source.values) # {}
    /\ result.status = "error"

(* C4: a struct diff has a DROP ATTRIBUTE for every member only the source *)
(* has and an ADD ATTRIBUTE for every member only the target has, and is   *)
(* None only when there is neither.                                        *)
StructDiff ==
    Called /\ level = "struct" /\ source.name = target.name =>
        LET gone == Range(source.members) \ Range(target.members)
            new  == Range(target.members) \ Range(source.members)
        IN  IF gone = {} /\ new = {} THEN result.status = "none"
            ELSE /\ result.status = "ok"
                 /\ \A m \in gone : \E c \in Range(result.out.body) :
                       c.text = "DROP ATTRIBUTE" /\ c.arg = m.name
                 /\ \A m \in new : \E c \in Range(result.out.body) :
                       c.text = "ADD ATTRIBUTE" /\ c.arg = m.name

Attributes == {"data_type", "nullable", "default", "identity"}

Differing(s, t) == {a \in Attributes : s[a] # t[a]}

ExpectedChange(s, t) ==
    CASE s.data_type # t.data_type -> Change("SET DATA TYPE", t.data_type)
      [] s.nullable # t.nullable ->
            IF t.nullable THEN Change("DROP NOT NULL", "")
            ELSE Change("SET NOT NULL", "")
      [] s.default # t.default ->
            IF t.default = None THEN Change("DROP DEFAULT", "")
            ELSE Change("SET DEFAULT", t.default)
      [] s.identity # t.identity ->
            IF t.identity THEN Change("ADD GENERATED BY DEFAULT AS IDENTITY", "")
            ELSE Change("DROP IDENTITY", "")

ExpectedOracleChange(s, t) ==
    CASE s.data_type # t.data_type -> Change("<data type>", t.data_type)
      [] s.nullable # t.nullable ->
            IF t.nullable THEN Change("NULL", "") ELSE Change("NOT NULL", "")
      [] s.default # t.default ->
            IF t.default = None THEN Change("DEFAULT NULL", "")
            ELSE Change("DEFAULT", t.default)
      [] s.identity # t.identity ->
            IF t.identity THEN Change("GENERATED BY DEFAULT AS IDENTITY", "")
            ELSE Change("DROP IDENTITY", "")

(* C5: two columns of one name that differ in exactly one of data type,    *)
(* nullability, default and identity diff to exactly one change, the one   *)
(* of that attribute: for the base Mutator SET DATA TYPE; SET / DROP NOT   *)
(* NULL; DROP DEFAULT (present to absent) or SET DEFAULT; DROP IDENTITY /  *)
(* ADD GENERATED BY DEFAULT AS IDENTITY; for the OracleMutator the one     *)
(* MODIFY change of that attribute.                                        *)
SingleAttributeChange ==
    Called /\ level = "column" /\ source.name = target.name
    /\ Cardinality(Differing(source, target)) = 1 =>
        /\ result.status = "ok"
        /\ result.out.name = source.name
        /\ Len(result.out.body) = 1
        /\ dialect = "base" =>
              /\ result.out.kw = "ALTER COLUMN"
              /\ result.out.body[1] = ExpectedChange(source, target)
        /\ dialect = "oracle" =>
              /\ result.out.kw = "MODIFY"
              /\ result.out.body[1] = ExpectedOracleChange(source, target)

SingleAttributeChangeWitness ==
    /\ Called /\ level = "column" /\ dialect = "base"
    /\ source.name = target.name
    /\ Differing(source, target) = {"default"}
    /\ source.default # None /\ target.default = None
    /\ result.status = "ok"

ColumnFails ==
    \/ Raised(create_or_update(dialect, source, target))
    \/ Raised(drop_columns(dialect, source, target))

(* C6: when creating, mutating or dropping a column fails inside the table *)
(* diff (a MySQL comment longer than 1024 characters included), what       *)
(* leaves it is a TableFormationError naming the table, the column's error *)
(* its cause.                                                              *)
ErrorAttribution ==
    Called /\ level = "table" /\ source.name = target.name /\ ColumnFails =>
        /\ result.status = "error"
        /\ result.error.type = "TableFormationError"
        /\ result.error.table = target.name
        /\ result.error.cause # ""

Count(out, kws, kind, n) ==
    Cardinality({i \in 1..Len(out) :
        out[i].kw \in kws /\ out[i].kind = kind /\ out[i].name = n})

(* Whether the diff of a matched pair is a statement.                      *)
Differ(kind, x, y) ==
    IF kind = "column" THEN mutate_column_stmt(dialect, x, y).status = "ok"
    ELSE mutate_fn(kind, dialect, x, y).status = "ok"

Partitioned(out, kind, s, t, create, mutate, drop) ==
    \A n \in Keys(s) \cup Keys(t) :
        /\ Count(out, create, kind, n) = IF n \notin Keys(s) THEN 1 ELSE 0
        /\ Count(out, drop, kind, n) = IF n \notin Keys(t) THEN 1 ELSE 0
        /\ Count(out, mutate, kind, n) =
              IF n \in Keys(s) \cap Keys(t) /\ Differ(kind, Get(s, n), Get(t, n))
              THEN 1 ELSE 0
        /\ n \in Keys(s) \cap Keys(t) /\ Get(s, n) = Get(t, n) =>
              Count(out, create \cup mutate \cup drop, kind, n) = 0

Batch == IF result.status = "ok" THEN result.out ELSE <<>>

(* C7: at every container level each child name is handled exactly once:   *)
(* created iff only the target has it, dropped iff only the source has it, *)
(* diffed iff both have it; a child that is the same in both contributes   *)
(* nothing.                                                                *)
NameMatchingPartition ==
    /\ Called /\ level = "table" /\ result.status = "ok" =>
          Partitioned(result.out.body, "column", source.columns, target.columns,
                      {"ADD COLUMN"}, {"ALTER COLUMN", "MODIFY"}, {"DROP COLUMN"})
    /\ Called /\ level = "namespace" /\ result.status # "error" =>
          /\ Partitioned(Batch, "enum", source.enums, target.enums,
                         {"CREATE"}, {"ALTER TYPE"}, {"DROP"})
          /\ Partitioned(Batch, "struct", source.structs, target.structs,
                         {"CREATE"}, {"ALTER TYPE"}, {"DROP"})
          /\ Partitioned(Batch, "table", source.tables, target.tables,
                         {"CREATE"}, {"ALTER TABLE"}, {"DROP"})
    /\ Called /\ level = "catalog" /\ result.status # "error" =>
          Partitioned(Batch, "namespace", source.namespaces, target.namespaces,
                      {"CREATE"}, {"MUTATE"}, {"DROP"})

(* users(id, name) to users(id, name NOT NULL, email).                     *)
NameMatchingPartitionWitness ==
    /\ Called /\ level = "table" /\ dialect = "base"
    /\ Len(source.columns) = 2 /\ Len(target.columns) = 3
    /\ source.columns[1] = target.columns[1]
    /\ source.columns[1].name = "id"
    /\ source.columns[2].name = "name" /\ target.columns[2].name = "name"
    /\ source.columns[2].nullable /\ ~target.columns[2].nullable
    /\ target.columns[3].name = "email"
    /\ source.constraints = target.constraints
    /\ result.status = "ok"
    /\ result.out.kw = "ALTER TABLE" /\ result.out.name = "users"
    /\ Len(result.out.body) = 2
    /\ result.out.body[1] =
          Stmt("ALTER COLUMN", "column", "name", <<Change("SET NOT NULL", "")>>)
    /\ result.out.body[2].kw = "ADD COLUMN" /\ result.out.body[2].name = "email"

Empty(n) == n.enums = <<>> /\ n.structs = <<>> /\ n.tables = <<>>

Named(kind, m) == [i \in 1..Len(m) |-> <<kind, m[i].name>>]

(* C8: from an empty namespace of the same name the diff is one create per *)
(* object, enums then structs then tables, with no alter and no drop; to   *)
(* an empty namespace it is exactly one drop per object, tables then       *)
(* structs then enums.                                                     *)
CreateDropSymmetry ==
    /\ Called /\ level = "namespace" /\ source.name = target.name
          /\ Empty(source) =>
          LET creates == SelectSeq(Batch, LAMBDA st : st.kw = "CREATE")
          IN  /\ result.status # "error"
              /\ [i \in 1..Len(creates) |-> <<creates[i].kind, creates[i].name>>]
                    = Named("enum", target.enums) \o Named("struct", target.structs)
                      \o Named("table", target.tables)
              /\ \A i \in 1..Len(Batch) : Phase(Batch[i]) \in {1, 2}
    /\ Called /\ level = "namespace" /\ source.name = target.name
          /\ Empty(target) =>
          /\ result.status # "error"
          /\ [i \in 1..Len(Batch) |-> <<Batch[i].kind, Batch[i].name>>]
                = Named("table", source.tables) \o Named("struct", source.structs)
                  \o Named("enum", source.enums)
          /\ \A i \in 1..Len(Batch) : Batch[i].kw = "DROP"

CreateDropSymmetryWitness ==
    /\ Called /\ level = "namespace" /\ source.name = target.name
    /\ Empty(target)
    /\ source.enums # <<>> /\ source.structs # <<>> /\ Len(source.tables) = 2
    /\ \E i \in 1..Len(source.tables) : deferred(source.tables[i]) # <<>>
    /\ result.status = "ok" /\ Len(result.out) = 4

(* C9: before any matched pair of enums, structs, columns, tables or       *)
(* namespaces is diffed, their names are checked, and a mismatch raises    *)
(* FormationError.                                                         *)
IdentityCheck ==
    Called /\ level \in {"enum", "struct", "column", "table", "namespace"}
    /\ source.name # target.name =>
        /\ result.status = "error"
        /\ result.error.type = "FormationError"
        /\ result.error.msg = "object mismatch"

HasDeferred(x) ==
    IF level = "catalog"
    THEN \E i \in 1..Len(x.tables) : deferred(x.tables[i]) # <<>>
    ELSE deferred(x) # <<>>

(* C10: for every namespace a catalog diff removes and every table a       *)
(* namespace diff removes, the object's non-empty drop_constraints_stmt()  *)
(* is in the batch, before the object's drop.                              *)
DeferredDropConstraints ==
    Called /\ level \in {"namespace", "catalog"} /\ result.status # "error" =>
        \A k \in 1..Len(Siblings(source)) :
            LET x == Siblings(source)[k]
            IN  x.name \notin Keys(Siblings(target)) /\ HasDeferred(x) =>
                    \E i, j \in 1..Len(Batch) :
                        /\ i < j
                        /\ Batch[i].kw = "DROP CONSTRAINTS" /\ Batch[i].name = x.name
                        /\ Batch[j].kw = "DROP" /\ Batch[j].name = x.name
                        /\ Batch[j].kind = IF level = "catalog" THEN "namespace"
                                           ELSE "table"

-----------------------------------------------------------------------------
(* Insertion order.                                                        *)

(* The orders in which the values of an ordered mapping can be inserted.   *)
Perms(m) == {p \in InjSeqs(Range(m), Len(m)) : Len(p) = Len(m)}

(* The objects that differ from x in the insertion order of their keyed    *)
(* children only.                                                          *)
Permuted(x) ==
    CASE level = "table" ->
            {[x EXCEPT !.columns = p] : p \in Perms(x.columns)}
      [] level = "namespace" ->
            {[x EXCEPT !.enums = e, !.structs = m, !.tables = p] :
                e \in Perms(x.enums), m \in Perms(x.structs),
                p \in Perms(x.tables)}
      [] level = "catalog" ->
            {[x EXCEPT !.namespaces = p] : p \in Perms(x.namespaces)}

(* The call of the state's level on other arguments.                       *)
Diff(s, t) ==
    CASE level = "table" -> mutate_table_stmt(dialect, s, t)
      [] level = "namespace" -> mutate_namespace_stmt(dialect, s, t)
      [] level = "catalog" -> mutate_catalog_stmt(dialect, s, t)

(* The set of fragments (table) or statements (namespace, catalog) that a  *)
(* call produced.                                                          *)
Fragments(r) ==
    IF r.status # "ok" THEN {}
    ELSE IF level = "table" THEN Range(r.out.body)
    ELSE Range(r.out)

(* C11: permuting the insertion order of the columns of the source or of   *)
(* the target table, or of the keyed children of a namespace or catalog,   *)
(* leaves the set of fragments or statements of the diff unchanged; two    *)
(* tables with the same columns in a different order diff to None.         *)
InsertionOrderIrrelevant ==
    Called /\ level \in {"table", "namespace", "catalog"} =>
        /\ \A s \in Permuted(source) :
                LET r == Diff(s, target)
                IN  r.status = result.status /\ Fragments(r) = Fragments(result)
        /\ \A t \in Permuted(target) :
                LET r == Diff(source, t)
                IN  r.status = result.status /\ Fragments(r) = Fragments(result)
        /\ level = "table" /\ source.name = target.name
           /\ source.constraints = target.constraints
           /\ Range(source.columns) = Range(target.columns) =>
                result.status = "none"

InsertionOrderIrrelevantWitness ==
    /\ Called /\ level = "table" /\ source.name = target.name
    /\ source.constraints = target.constraints
    /\ Len(source.columns) = 3
    /\ Range(source.columns) = Range(target.columns)
    /\ source.columns # target.columns
    /\ result.status = "none"

-----------------------------------------------------------------------------
(* Table constraints.                                                      *)

(* The constraint fragments of the ALTER TABLE statement, as <<keyword,    *)
(* constraint name>> in the order emitted.                                 *)
ConstraintFragments ==
    LET body == IF result.status = "ok" THEN result.out.body ELSE <<>>
        cs == SelectSeq(body, LAMBDA f : f.kind = "constraint")
    IN  [i \in 1..Len(cs) |-> <<cs[i].kw, cs[i].name>>]

(* One fragment with keyword kw for each constraint with is_alter_table(). *)
PerAlterTableConstraint(kw, constraints) ==
    LET cs == SelectSeq(constraints, LAMBDA c : c.is_alter_table)
    IN  [i \in 1..Len(cs) |-> <<kw, cs[i].name>>]

(* C12: a table diff emits one DROP CONSTRAINT per source constraint with  *)
(* is_alter_table() when only the source has constraints, one ADD          *)
(* CONSTRAINT per target constraint with is_alter_table() when only the    *)
(* target has constraints, and no constraint fragment when both have       *)
(* constraints, even different ones.                                       *)
TableConstraintDiff ==
    Called /\ level = "table" /\ result.status # "error" =>
        /\ source.constraints # <<>> /\ target.constraints = <<>> =>
                ConstraintFragments
                    = PerAlterTableConstraint("DROP CONSTRAINT", source.constraints)
        /\ source.constraints = <<>> /\ target.constraints # <<>> =>
                ConstraintFragments
                    = PerAlterTableConstraint("ADD CONSTRAINT", target.constraints)
        /\ source.constraints # <<>> /\ target.constraints # <<>> =>
                ConstraintFragments = <<>>

TableConstraintDiffWitness ==
    /\ Called /\ level = "table" /\ result.status = "ok"
    /\ source.constraints # <<>> /\ target.constraints # <<>>
    /\ Range(source.constraints) \cap Range(target.constraints) = {}
    /\ ConstraintFragments = <<>>

-----------------------------------------------------------------------------
(* String literals.                                                        *)

Special == {Backslash, Apostrophe} \cup ControlChars

HasControl(text) == \E i \in 1..Len(text) : text[i] \in ControlChars

(* An extended literal is tagged E before its opening quote.               *)
IsExtended(lit) == Len(lit) >= 3 /\ lit[1] = "E"

(* What stands between the delimiting quotes of a literal.                 *)
Body(lit) == SubSeq(lit, IF IsExtended(lit) THEN 3 ELSE 2, Len(lit) - 1)

Delimited(lit) ==
    /\ Len(lit) >= 2
    /\ lit[IF IsExtended(lit) THEN 2 ELSE 1] = Apostrophe
    /\ lit[Len(lit)] = Apostrophe

(* The backslash escape of a character in an extended literal.             *)
BackslashEscape(c) ==
    CASE c = Backslash -> <<Backslash, Backslash>>
      [] c = Apostrophe -> <<Backslash, Apostrophe>>
      [] c = Backspace -> <<Backslash, "b">>
      [] c = FormFeed -> <<Backslash, "f">>
      [] c = Newline -> <<Backslash, "n">>
      [] c = CarriageReturn -> <<Backslash, "r">>
      [] c = Tab -> <<Backslash, "t">>

(* The text with every character of the set escaped: by a backslash escape *)
(* in an extended literal, by doubling in a plain one.                     *)
RECURSIVE Escaped(_, _, _)
Escaped(text, chars, extended) ==
    IF text = <<>> THEN <<>>
    ELSE (IF Head(text) \notin chars THEN <<Head(text)>>
          ELSE IF extended THEN BackslashEscape(Head(text))
          ELSE <<Head(text), Head(text)>>)
         \o Escaped(Tail(text), chars, extended)

(* Is there, from position i on, an apostrophe that is neither doubled nor *)
(* (in an extended literal) preceded by an escaping backslash?             *)
RECURSIVE UnescapedApostrophe(_, _, _)
UnescapedApostrophe(body, i, extended) ==
    IF i > Len(body) THEN FALSE
    ELSE IF extended /\ body[i] = Backslash
    THEN UnescapedApostrophe(body, i + 2, extended)
    ELSE IF body[i] = Apostrophe
    THEN IF i < Len(body) /\ body[i + 1] = Apostrophe
         THEN UnescapedApostrophe(body, i + 2, extended)
         ELSE TRUE
    ELSE UnescapedApostrophe(body, i + 1, extended)

(* The literal for the state's text in which the characters of the set are *)
(* the escaped ones.                                                       *)
LiteralEscaping(chars) ==
    /\ Delimited(result.out)
    /\ IsExtended(result.out) <=> HasControl(source)
    /\ Body(result.out) = Escaped(source, chars, HasControl(source))
    /\ ~UnescapedApostrophe(Body(result.out), 1, IsExtended(result.out))

(* C13: sql_quoted_string returns an extended literal (prefix E) exactly   *)
(* when the text holds a backspace, form-feed, newline, carriage-return or *)
(* tab, and then every backslash, apostrophe and control character is      *)
(* backslash-escaped; otherwise it returns a plain literal in which every  *)
(* apostrophe is doubled and a backslash is copied as it is; in both no    *)
(* unescaped apostrophe stands between the delimiting quotes.              *)
StringEscaping ==
    Called /\ level = "string" =>
        /\ result.status = "ok"
        /\ LiteralEscaping(IF HasControl(source) THEN Special
                           ELSE Special \ {Backslash})

StringEscapingWitness ==
    /\ Called /\ level = "string" /\ ~HasControl(source)
    /\ \E i, j \in 1..Len(source) :
            source[i] = Backslash /\ source[j] = Apostrophe
    /\ result.out = <<Apostrophe>> \o Escaped(source, {Apostrophe}, FALSE)
                        \o <<Apostrophe>>

(* C13 as stated: every backslash, apostrophe and control character of     *)
(* the text is escaped in the literal, extended or plain.                  *)
StringEscapingOfEverySpecial ==
    Called /\ level = "string" =>
        /\ result.status = "ok"
        /\ LiteralEscaping(Special)

-----------------------------------------------------------------------------
(* The Oracle override against the base column diff.                       *)

(* The attribute that an ALTER COLUMN fragment of the base diff changes.   *)
BaseAttribute(change) ==
    CASE change.text = "SET DATA TYPE" -> "data_type"
      [] change.text \in {"SET NOT NULL", "DROP NOT NULL"} -> "nullable"
      [] change.text \in {"SET DEFAULT", "DROP DEFAULT"} -> "default"
      [] change.text \in {"DROP IDENTITY", "ADD GENERATED BY DEFAULT AS IDENTITY"}
            -> "identity"

(* The attribute that a change of an Oracle MODIFY clause changes.         *)
OracleAttribute(change) ==
    CASE change.text = "<data type>" -> "data_type"
      [] change.text \in {"NOT NULL", "NULL"} -> "nullable"
      [] change.text \in {"DEFAULT", "DEFAULT NULL"} -> "default"
      [] change.text \in {"DROP IDENTITY", "GENERATED BY DEFAULT AS IDENTITY"}
            -> "identity"

(* What the two mutators return for the state's columns: the one of the    *)
(* state's dialect is the call made, the other is evaluated beside it.     *)
BaseResult ==
    IF dialect = "oracle" THEN Mutator_mutate_column_stmt(source, target)
    ELSE result

OracleResult ==
    IF dialect = "oracle" THEN result
    ELSE OracleMutator_mutate_column_stmt(source, target)

Changes(r) == IF r.status = "ok" THEN r.out.body ELSE <<>>

(* C14: for two columns of the same name the Oracle mutator returns None   *)
(* exactly when the base mutator does, its MODIFY clause changes exactly   *)
(* the attributes that the base ALTER COLUMN fragments change, and all     *)
(* changes of the column are in one MODIFY clause, one per attribute.      *)
OverrideAgreesWithBase ==
    Called /\ level = "column" /\ source.name = target.name =>
        /\ OracleResult.status = "none" <=> BaseResult.status = "none"
        /\ \A a \in Attributes :
                (\E i \in 1..Len(Changes(OracleResult)) :
                    OracleAttribute(Changes(OracleResult)[i]) = a)
                <=> (\E i \in 1..Len(Changes(BaseResult)) :
                        BaseAttribute(Changes(BaseResult)[i]) = a)
        /\ OracleResult.status = "ok" =>
                /\ OracleResult.out.kw = "MODIFY"
                /\ OracleResult.out.name = source.name
                /\ Len(Changes(OracleResult)) = Len(Changes(BaseResult))
                /\ Len(Changes(OracleResult)) = Cardinality(Differing(source, target))

OverrideAgreesWithBaseWitness ==
    /\ Called /\ level = "column" /\ dialect = "oracle"
    /\ source.name = target.name
    /\ Differing(source, target) = Attributes
    /\ source.default # None /\ target.default = None
    /\ result.status = "ok" /\ result.out.kw = "MODIFY"
    /\ Len(result.out.body) = 4
    /\ Len(Changes(BaseResult)) = 4

=============================================================================
